---------------------------- MODULE Spec2Model ----------------------------
(***************************************************************************)
(* Model of key-parser.py: the authorized_keys registry (SSHKeyParser),    *)
(* the auth.log scanner (AuthLogParser) and the fallback chain that        *)
(* resolves an (ip, username) pair to a registry entry.                    *)
(*                                                                         *)
(* Text is modelled structurally.  A string without whitespace (a token)   *)
(* is the sequence of its segments around '=' : "SSH_USER=alice" is        *)
(* <<"SSH_USER", "alice">>, "comment" is <<"comment">>, "a=b=c" is         *)
(* <<"a", "b", "c">>, the empty string is <<"">>.  A registry line is its  *)
(* leading-whitespace flag and its whitespace-separated tokens.  A log     *)
(* line is the record of the substrings the scanner's patterns look for.   *)
(***************************************************************************)
EXTENDS Naturals, Integers, Sequences, FiniteSets, TLC

VARIABLES
    authorized_keys,  \* the registry file: [exists, readable, lines]
    auth_log,         \* the auth log file: [exists, readable, lines]
    environ,          \* os.environ: [SSH_KEY_FINGERPRINT, SSH_KEY_COMMENT]
    key_cache,        \* SSHKeyParser.key_cache, a dict in insertion order
    loaded,           \* the registry file as the constructor read it
    edits,            \* number of changes made to the registry file since
    call,             \* the last operation called, with its arguments
    result,           \* what that operation returned
    trace             \* what that operation did on the way

vars == <<authorized_keys, auth_log, environ, key_cache, loaded, edits,
          call, result, trace>>

-----------------------------------------------------------------------------
(* Bounds of the model *)

MaxKeys == 2          \* registry lines, fallback chain
MaxLog == 2           \* auth log lines, fallback chain
MaxRegistry == 3      \* registry lines, registry lookups
MaxScanLog == 3       \* auth log lines, log scanner
MaxLinesArg == 4      \* largest max_lines argument tried
MaxReloadKeys == 2    \* registry lines, registry changed after load
MaxEdits == 1         \* changes to the registry file after load
MaxTokens == 4        \* tokens of a parsed line
MaxRescanKeys == 1    \* registry lines, long auth logs
MaxOlder == 1         \* log lines written before the filler lines
MaxRecent == 2        \* log lines written after the filler lines

(* Program constants *)

DEFAULT_MAX_LINES == 1000
RESCAN_LINES == 100

-----------------------------------------------------------------------------
(* Values *)

None == [none |-> TRUE]
Raised == [raised |-> TRUE]

EmptyStr == <<"">>
UnknownStr == <<"unknown">>

Word(w) == <<w>>

\* Sequences over S of length at most n
SeqUpTo(S, n) == UNION {[1..k -> S] : k \in 0..n}

Min(a, b) == IF a < b THEN a ELSE b

\* str.startswith('#') for a token
StartsWithHash(tok) == tok[1] \in {"#", "#ssh-rsa"}

\* '=' in part
HasEq(tok) == Len(tok) > 1

Tail1(s) == [i \in 1..(Len(s) - 1) |-> s[i + 1]]

-----------------------------------------------------------------------------
(* FingerprintCodec *)

\* base64.b64decode(key_data): characters outside the alphabet are
\* discarded, so "AAAAB3Nz" and "AAAAB3Nz-" decode to the same bytes; a
\* wrong number of data characters raises.
B64Decode(key_data) ==
    CASE key_data = <<"AAAAB3Nz">>  -> "bytes1"
      [] key_data = <<"AAAAB3Nz-">> -> "bytes1"
      [] key_data = <<"AAAAC3Nz">>  -> "bytes2"
      [] key_data = <<"AAAAE2Vj">>  -> "bytes3"
      [] OTHER -> "error"

\* hashlib.md5(...).hexdigest() joined by ':' in pairs
Md5Colon(bytes) ==
    CASE bytes = "bytes1" -> "c4:ca"
      [] bytes = "bytes2" -> "c8:1e"
      [] bytes = "bytes3" -> "ec:cb"

_generate_fingerprint(key_type, key_data) ==
    IF B64Decode(key_data) = "error"
    THEN "unknown"
    ELSE Md5Colon(B64Decode(key_data))

-----------------------------------------------------------------------------
(* KeyRegistry: parsing a line *)

\* part.split('=', 1)
SplitKey(part) == part[1]
SplitValue(part) == Tail1(part)

\* the loop over parts[2:-1] of a line of n > 3 tokens (1-based 3..n-1),
\* later tokens overwriting earlier ones with the same key
RECURSIVE OptionsLoop(_, _, _)
OptionsLoop(parts, i, options) ==
    IF i > Len(parts) - 1
    THEN options
    ELSE IF HasEq(parts[i])
         THEN OptionsLoop(parts, i + 1,
                  [k \in (DOMAIN options) \cup {SplitKey(parts[i])} |->
                      IF k = SplitKey(parts[i])
                      THEN SplitValue(parts[i])
                      ELSE options[k]])
         ELSE OptionsLoop(parts, i + 1, options)

\* a slip: the loop runs over parts[2:], the last token included
ExtractOptionsThroughLast(parts) ==
    IF Len(parts) > 2
    THEN OptionsLoop(Append(parts, Word("end")), 3, <<>>)
    ELSE <<>>

ExtractOptions(parts) ==
    IF Len(parts) > 3
    THEN OptionsLoop(parts, 3, <<>>)
    ELSE <<>>

\* _parse_authorized_key_line(line) on the stripped line's tokens
_parse_authorized_key_line(parts) ==
    IF Len(parts) < 2
    THEN None
    ELSE [type        |-> parts[1],
          data        |-> parts[2],
          fingerprint |-> _generate_fingerprint(parts[1], parts[2]),
          comment     |-> IF Len(parts) > 2 THEN parts[3] ELSE EmptyStr,
          options     |-> ExtractOptions(parts),
          full_line   |-> parts]

-----------------------------------------------------------------------------
(* KeyRegistry: the file, the index and the lookups *)

\* line.strip() is empty
IsBlank(line) == line.toks = <<>>

\* line.strip().startswith('#')
StrippedIsComment(line) == ~IsBlank(line) /\ StartsWithHash(line.toks[1])

\* line.startswith('#') on the line as read
RawIsComment(line) == StrippedIsComment(line) /\ ~line.indent

\* self.key_cache[key_info['fingerprint']] = key_info : a known key keeps
\* its place in the dict's order, a new key goes last
CachePut(cache, key_info) ==
    IF \E i \in 1..Len(cache) : cache[i].fingerprint = key_info.fingerprint
    THEN [i \in 1..Len(cache) |->
             IF cache[i].fingerprint = key_info.fingerprint
             THEN key_info
             ELSE cache[i]]
    ELSE Append(cache, key_info)

WithLineNumber(key_info, line_num) ==
    [f \in (DOMAIN key_info) \cup {"line_number"} |->
        IF f = "line_number" THEN line_num ELSE key_info[f]]

RECURSIVE LoadLoop(_, _, _)
LoadLoop(lines, line_num, cache) ==
    IF line_num > Len(lines)
    THEN cache
    ELSE IF IsBlank(lines[line_num]) \/ StrippedIsComment(lines[line_num])
         THEN LoadLoop(lines, line_num + 1, cache)
         ELSE LET key_info == _parse_authorized_key_line(lines[line_num].toks)
              IN  IF key_info = None
                  THEN LoadLoop(lines, line_num + 1, cache)
                  ELSE LoadLoop(lines, line_num + 1,
                           CachePut(cache, WithLineNumber(key_info, line_num)))

\* the key_cache after __init__ : empty when the file is missing or cannot
\* be opened
_load_authorized_keys(file) ==
    IF ~file.exists
    THEN <<>>
    ELSE IF ~file.readable
         THEN <<>>
         ELSE LoadLoop(file.lines, 1, <<>>)

\* self.key_cache.get(fingerprint)
find_key_by_fingerprint(cache, fingerprint) ==
    IF \E i \in 1..Len(cache) : cache[i].fingerprint = fingerprint
    THEN cache[CHOOSE i \in 1..Len(cache) : cache[i].fingerprint = fingerprint]
    ELSE None

RECURSIVE FindByDataLoop(_, _, _)
FindByDataLoop(lines, i, key_data) ==
    IF i > Len(lines)
    THEN None
    ELSE IF /\ ~IsBlank(lines[i])
            /\ ~RawIsComment(lines[i])
            /\ Len(lines[i].toks) >= 2
            /\ lines[i].toks[2] = key_data
         THEN _parse_authorized_key_line(lines[i].toks)
         ELSE FindByDataLoop(lines, i + 1, key_data)

\* a slip: the lines are those read at construction, not re-read
FindByDataInLoadedLines(file, key_data) ==
    IF ~loaded.exists \/ ~loaded.readable
    THEN None
    ELSE FindByDataLoop(loaded.lines, 1, key_data)

\* _find_key_by_data(key_data), reading the registry file as it is now
_find_key_by_data(file, key_data) ==
    IF ~file.exists
    THEN None
    ELSE IF ~file.readable
         THEN None
         ELSE FindByDataLoop(file.lines, 1, key_data)

RECURSIVE FindByCommentLoop(_, _, _)
FindByCommentLoop(cache, i, comment) ==
    IF i > Len(cache)
    THEN None
    ELSE IF cache[i].comment = comment
         THEN cache[i]
         ELSE FindByCommentLoop(cache, i + 1, comment)

\* a slip: a fingerprint hint that finds nothing falls through to the
\* comment hint
FindFromEnvironmentFallThrough(cache, env) ==
    IF env.SSH_KEY_FINGERPRINT # ""
          /\ find_key_by_fingerprint(cache, env.SSH_KEY_FINGERPRINT) # None
    THEN find_key_by_fingerprint(cache, env.SSH_KEY_FINGERPRINT)
    ELSE IF env.SSH_KEY_COMMENT # EmptyStr
         THEN FindByCommentLoop(cache, 1, env.SSH_KEY_COMMENT)
         ELSE None

\* _find_key_from_ssh_environment() : an unset variable and an empty one
\* are both falsy
_find_key_from_ssh_environment(cache, env) ==
    IF env.SSH_KEY_FINGERPRINT # ""
    THEN find_key_by_fingerprint(cache, env.SSH_KEY_FINGERPRINT)
    ELSE IF env.SSH_KEY_COMMENT # EmptyStr
         THEN FindByCommentLoop(cache, 1, env.SSH_KEY_COMMENT)
         ELSE None

get_key_comment(cache, fingerprint) ==
    IF find_key_by_fingerprint(cache, fingerprint) # None
    THEN find_key_by_fingerprint(cache, fingerprint).comment
    ELSE UnknownStr

get_key_options(cache, fingerprint) ==
    IF find_key_by_fingerprint(cache, fingerprint) # None
    THEN find_key_by_fingerprint(cache, fingerprint).options
    ELSE <<>>

get_ssh_user_from_options(cache, fingerprint) ==
    IF "SSH_USER" \in DOMAIN get_key_options(cache, fingerprint)
    THEN get_key_options(cache, fingerprint)["SSH_USER"]
    ELSE None

-----------------------------------------------------------------------------
(* AuthLogScanner *)

ExactMethods == {"publickey", "password", "keyboard-interactive"}

\* ip_address in line : "10.0.0.5" is also found in a line about 10.0.0.50
IpInLine(ip_address, line) ==
    \/ line.ip = ip_address
    \/ (ip_address = "10.0.0.5" /\ line.ip = "10.0.0.50")

\* re.search of "Accepted <method> for <username> from <ip_address>"
_is_ssh_connection_line(line, ip_address, username) ==
    /\ line.verb = "Accepted"
    /\ line.method \in ExactMethods
    /\ line.user = username
    /\ IpInLine(ip_address, line)

\* ip_address in line and "Accepted" in line and "sshd" in line
IsLooseLine(line, ip_address) ==
    /\ IpInLine(ip_address, line)
    /\ line.verb = "Accepted"
    /\ line.sshd

\* _parse_ssh_connection_line(line) : each field is what the first matching
\* pattern captures, or 'unknown'
_parse_ssh_connection_line(line) ==
    [fingerprint |-> IF line.fingerprint = "" THEN "unknown" ELSE line.fingerprint,
     key_type    |-> IF line.key_type = "" THEN "unknown" ELSE line.key_type,
     auth_method |-> IF line.method \in ExactMethods THEN line.method ELSE "unknown",
     key_data    |-> IF line.key_data = EmptyStr THEN UnknownStr ELSE line.key_data]

\* index of the first line of lines[-max_lines:] if len(lines) > max_lines
\* else lines ; lines[-0:] is the whole list
WindowStart(n, max_lines) ==
    IF n > max_lines
    THEN IF max_lines = 0 THEN 1 ELSE n - max_lines + 1
    ELSE 1

\* for line in reversed(recent_lines): first index i, going down from i to
\* first, whose line is an exact match; 0 when there is none
RECURSIVE ScanExact(_, _, _, _, _)
ScanExact(lines, i, first, ip_address, username) ==
    IF i < first
    THEN 0
    ELSE IF _is_ssh_connection_line(lines[i], ip_address, username)
         THEN i
         ELSE ScanExact(lines, i - 1, first, ip_address, username)

RECURSIVE ScanLoose(_, _, _, _)
ScanLoose(lines, i, first, ip_address) ==
    IF i < first
    THEN 0
    ELSE IF IsLooseLine(lines[i], ip_address)
         THEN i
         ELSE ScanLoose(lines, i - 1, first, ip_address)

\* a slip: one pass that takes the most recent line matching either way
FindRecentIndexOnePass(lines, ip_address, username, max_lines) ==
    LET first == WindowStart(Len(lines), max_lines)
        hits == {i \in first..Len(lines) :
                    \/ _is_ssh_connection_line(lines[i], ip_address, username)
                    \/ IsLooseLine(lines[i], ip_address)}
    IN  IF hits = {} THEN 0 ELSE CHOOSE i \in hits : \A j \in hits : j <= i

\* index in the file of the line find_recent_ssh_connection returns the
\* evidence of, 0 when it returns None
FindRecentIndex(lines, ip_address, username, max_lines) ==
    LET first == WindowStart(Len(lines), max_lines)
        exact == ScanExact(lines, Len(lines), first, ip_address, username)
    IN  IF exact # 0
        THEN exact
        ELSE ScanLoose(lines, Len(lines), first, ip_address)

\* find_recent_ssh_connection(ip_address, username, max_lines) : None when
\* the file is missing, and when reading it raises
find_recent_ssh_connection(log, ip_address, username, max_lines) ==
    IF ~log.exists
    THEN None
    ELSE IF ~log.readable
         THEN None
         ELSE IF FindRecentIndex(log.lines, ip_address, username, max_lines) = 0
              THEN None
              ELSE _parse_ssh_connection_line(
                       log.lines[FindRecentIndex(log.lines, ip_address,
                                                 username, max_lines)])

-----------------------------------------------------------------------------
(* Correlator: find_key_by_ip_and_user *)

\* what a step of the chain did
NotReached == [notreached |-> TRUE]   \* the call had returned before it
NoLookup == [nolookup |-> TRUE]       \* reached, its condition was false

\* "if found_key:" : a parsed entry is a non-empty dict
IsEntry(x) == "data" \in DOMAIN x

\* a slip: the 'unknown' fingerprint is looked up like any other
Step1NoSentinelCheck(cache, conn) ==
    IF conn # None
    THEN find_key_by_fingerprint(cache, conn.fingerprint)
    ELSE NoLookup

\* step 1, lines 120-123
Step1(cache, conn) ==
    IF conn # None /\ conn.fingerprint # "unknown"
    THEN find_key_by_fingerprint(cache, conn.fingerprint)
    ELSE NoLookup

\* step 2, lines 127-130
Step2(o1, file, conn) ==
    IF IsEntry(o1)
    THEN NotReached
    ELSE IF conn # None /\ conn.key_data # UnknownStr
         THEN _find_key_by_data(file, conn.key_data)
         ELSE NoLookup

\* the loop of lines 139-146 over reversed(recent_lines)
RECURSIVE RescanLoop(_, _, _, _, _)
RescanLoop(lines, i, first, file, ip_address) ==
    IF i < first
    THEN None
    ELSE IF /\ IsLooseLine(lines[i], ip_address)
            /\ _parse_ssh_connection_line(lines[i]).key_data # UnknownStr
            /\ _find_key_by_data(file,
                   _parse_ssh_connection_line(lines[i]).key_data) # None
         THEN _find_key_by_data(file,
                  _parse_ssh_connection_line(lines[i]).key_data)
         ELSE RescanLoop(lines, i - 1, first, file, ip_address)

\* step 3, lines 133-146 : open() is not guarded here, so a log that
\* exists and cannot be read raises
Step3(o1, o2, file, log, ip_address) ==
    IF IsEntry(o1) \/ IsEntry(o2)
    THEN NotReached
    ELSE IF ~log.exists
         THEN NoLookup
         ELSE IF ~log.readable
              THEN Raised
              ELSE RescanLoop(log.lines, Len(log.lines),
                              WindowStart(Len(log.lines), RESCAN_LINES),
                              file, ip_address)

\* step 4, line 150
Step4(o1, o2, o3, cache, env) ==
    IF IsEntry(o1) \/ IsEntry(o2) \/ IsEntry(o3) \/ o3 = Raised
    THEN NotReached
    ELSE _find_key_from_ssh_environment(cache, env)

\* the value the try block of lines 115-150 ends with
ChainValue(o1, o2, o3, o4) ==
    IF IsEntry(o1) THEN o1
    ELSE IF IsEntry(o2) THEN o2
    ELSE IF IsEntry(o3) THEN o3
    ELSE IF o3 = Raised THEN Raised
    ELSE o4

\* a slip: no handler around the chain
CatchNothing(value) == value

\* "except Exception: return None", lines 152-154
CatchAll(value) == IF value = Raised THEN None ELSE value

\* find_key_by_ip_and_user(ip_address, username) : the evidence, what each
\* step did, and the value returned
find_key_by_ip_and_user(cache, file, log, env, ip_address, username) ==
    LET conn == find_recent_ssh_connection(log, ip_address, username,
                                           DEFAULT_MAX_LINES)
        o1 == Step1(cache, conn)
        o2 == Step2(o1, file, conn)
        o3 == Step3(o1, o2, file, log, ip_address)
        o4 == Step4(o1, o2, o3, cache, env)
    IN  [conn |-> conn, o1 |-> o1, o2 |-> o2, o3 |-> o3, o4 |-> o4,
         value |-> CatchAll(ChainValue(o1, o2, o3, o4))]

-----------------------------------------------------------------------------
(* The files, the environment and the arguments tried *)

KD1 == <<"AAAAB3Nz">>       \* decodes to bytes1
KD1j == <<"AAAAB3Nz-">>     \* decodes to bytes1 as well
KD2 == <<"AAAAC3Nz">>       \* decodes to bytes2
KD3 == <<"AAAAE2Vj">>       \* decodes to bytes3, in no registry
BadA == <<"AAAAB3N">>       \* incorrect padding
BadB == <<"AAAAC3N">>       \* incorrect padding

RegLine(indent, toks) == [indent |-> indent, toks |-> toks]

rAlice == RegLine(FALSE, <<Word("ssh-rsa"), KD1, Word("alice")>>)
rAlice2 == RegLine(FALSE, <<Word("ssh-rsa"), KD1, Word("bob")>>)
rJunk == RegLine(FALSE, <<Word("ssh-rsa"), KD1j, Word("carol")>>)
rBob == RegLine(TRUE, <<Word("ssh-ed25519"), KD2, Word("bob")>>)
rOpt == RegLine(FALSE, <<Word("ssh-ed25519"), KD2, <<"SSH_USER", "alice">>,
                         Word("comment-text")>>)
rBadA == RegLine(FALSE, <<Word("ssh-rsa"), BadA, Word("dave")>>)
rBadB == RegLine(FALSE, <<Word("ssh-rsa"), BadB>>)
rHash == RegLine(FALSE, <<Word("#ssh-rsa"), KD1, Word("old")>>)
rIndentHash == RegLine(TRUE, <<Word("#ssh-rsa"), KD1, Word("old")>>)
rBlank == RegLine(TRUE, <<>>)
rShort == RegLine(FALSE, <<Word("ssh-rsa")>>)

Missing == [exists |-> FALSE, readable |-> FALSE, lines |-> <<>>]
Unreadable(lines) == [exists |-> TRUE, readable |-> FALSE, lines |-> lines]
File(lines) == [exists |-> TRUE, readable |-> TRUE, lines |-> lines]

\* every file of at most n lines over S, the missing file and one that
\* cannot be opened
Files(S, n) ==
    {File(l) : l \in SeqUpTo(S, n)} \cup {Missing, Unreadable(<<>>)}

LogLine(verb, method, user, ip, sshd, fp, kt, kd) ==
    [verb |-> verb, method |-> method, user |-> user, ip |-> ip,
     sshd |-> sshd, fingerprint |-> fp, key_type |-> kt, key_data |-> kd]

\* Accepted publickey for alice from 10.0.0.5 ... key <KD1>
lKeyData == LogLine("Accepted", "publickey", "alice", "10.0.0.5", TRUE,
                    "", "", KD1)
\* Accepted publickey for bob from 10.0.0.5 ... fingerprint c8:1e
lMd5 == LogLine("Accepted", "publickey", "bob", "10.0.0.5", TRUE,
                "c8:1e", "", EmptyStr)
\* Accepted publickey for alice from 10.0.0.5 ... RSA SHA256:nThbg6 ... RSA <KD3>
lSha == LogLine("Accepted", "publickey", "alice", "10.0.0.5", TRUE,
                "nThbg6", "RSA", KD3)
\* Accepted password for alice from 10.0.0.5
lPassword == LogLine("Accepted", "password", "alice", "10.0.0.5", TRUE,
                     "", "", EmptyStr)
\* Failed password for alice from 10.0.0.5
lFailed == LogLine("Failed", "password", "alice", "10.0.0.5", TRUE,
                   "", "", EmptyStr)
\* Accepted publickey for bob from 10.0.0.50 ... key <KD2>
lOtherIp == LogLine("Accepted", "publickey", "bob", "10.0.0.50", TRUE,
                    "", "", KD2)
\* written without the word sshd:
\* Accepted keyboard-interactive for alice from 10.0.0.5 ... key <KD2>
lNoSshd == LogLine("Accepted", "keyboard-interactive", "alice", "10.0.0.5",
                   FALSE, "", "", KD2)
\* Accepted hostbased for alice from 10.0.0.9 ... key <KD1>
lHostbased == LogLine("Accepted", "hostbased", "alice", "10.0.0.9", TRUE,
                      "", "", KD1)

Env(fp, comment) == [SSH_KEY_FINGERPRINT |-> fp, SSH_KEY_COMMENT |-> comment]
NoHint == Env("", EmptyStr)

Ips == {"10.0.0.5", "10.0.0.9"}
Users == {"alice", "bob"}
KeyDatas == {KD1, KD1j, KD2, KD3, BadA}

-----------------------------------------------------------------------------
(* Operations *)

NoCall == [op |-> "new"]

\* main() builds one parser and runs one command on it
Fresh == call = NoCall

\* the state after SSHKeyParser(path) over the files and environments given
InitOver(registries, logs, envs) ==
    /\ authorized_keys \in registries
    /\ auth_log \in logs
    /\ environ \in envs
    /\ key_cache = _load_authorized_keys(authorized_keys)
    /\ loaded = authorized_keys
    /\ edits = 0
    /\ call = NoCall
    /\ result = None
    /\ trace = None

Untouched == UNCHANGED <<authorized_keys, auth_log, environ, key_cache,
                         loaded, edits>>

FindByFingerprint(fp) ==
    /\ call' = [op |-> "find_key_by_fingerprint", fingerprint |-> fp]
    /\ result' = find_key_by_fingerprint(key_cache, fp)
    /\ trace' = None
    /\ Untouched

FindByKeyData(kd) ==
    /\ call' = [op |-> "_find_key_by_data", key_data |-> kd]
    /\ result' = _find_key_by_data(authorized_keys, kd)
    /\ trace' = None
    /\ Untouched

FindFromEnvironment ==
    /\ call' = [op |-> "_find_key_from_ssh_environment"]
    /\ result' = _find_key_from_ssh_environment(key_cache, environ)
    /\ trace' = None
    /\ Untouched

GetKeyComment(fp) ==
    /\ call' = [op |-> "get_key_comment", fingerprint |-> fp]
    /\ result' = get_key_comment(key_cache, fp)
    /\ trace' = None
    /\ Untouched

GetKeyOptions(fp) ==
    /\ call' = [op |-> "get_key_options", fingerprint |-> fp]
    /\ result' = get_key_options(key_cache, fp)
    /\ trace' = None
    /\ Untouched

GetSshUser(fp) ==
    /\ call' = [op |-> "get_ssh_user_from_options", fingerprint |-> fp]
    /\ result' = get_ssh_user_from_options(key_cache, fp)
    /\ trace' = None
    /\ Untouched

Resolve(ip, user) ==
    /\ call' = [op |-> "find_key_by_ip_and_user", ip_address |-> ip,
                username |-> user]
    /\ result' = find_key_by_ip_and_user(key_cache, authorized_keys, auth_log,
                                         environ, ip, user).value
    /\ trace' = find_key_by_ip_and_user(key_cache, authorized_keys, auth_log,
                                        environ, ip, user)
    /\ Untouched

FindRecent(ip, user, max_lines) ==
    /\ call' = [op |-> "find_recent_ssh_connection", ip_address |-> ip,
                username |-> user, max_lines |-> max_lines]
    /\ result' = find_recent_ssh_connection(auth_log, ip, user, max_lines)
    /\ trace' = [line |-> IF auth_log.exists /\ auth_log.readable
                          THEN FindRecentIndex(auth_log.lines, ip, user,
                                               max_lines)
                          ELSE 0]
    /\ Untouched

ParseLine(parts) ==
    /\ call' = [op |-> "_parse_authorized_key_line", parts |-> parts]
    /\ result' = _parse_authorized_key_line(parts)
    /\ trace' = None
    /\ Untouched

\* the registry file is changed by its owner while the parser lives
AppendKey(line) ==
    /\ edits < MaxEdits
    /\ authorized_keys.exists /\ authorized_keys.readable
    /\ authorized_keys' = File(Append(authorized_keys.lines, line))
    /\ edits' = edits + 1
    /\ UNCHANGED <<auth_log, environ, key_cache, loaded, call, result, trace>>

RemoveKey(i) ==
    /\ edits < MaxEdits
    /\ authorized_keys.exists /\ authorized_keys.readable
    /\ i \in 1..Len(authorized_keys.lines)
    /\ authorized_keys' =
           File([j \in 1..(Len(authorized_keys.lines) - 1) |->
                    IF j < i THEN authorized_keys.lines[j]
                    ELSE authorized_keys.lines[j + 1]])
    /\ edits' = edits + 1
    /\ UNCHANGED <<auth_log, environ, key_cache, loaded, call, result, trace>>

-----------------------------------------------------------------------------
(* Specifications *)

\* the fallback chain over small registries and logs
ChainRegLines == {rAlice, rBob, rIndentHash, rBadA}
ChainLogLines == {lKeyData, lMd5, lSha, lPassword, lOtherIp, lNoSshd}
ChainEnvs == {NoHint, Env("c4:ca", Word("bob")), Env("", Word("bob"))}

Init ==
    InitOver(Files(ChainRegLines, MaxKeys),
             Files(ChainLogLines, MaxLog),
             ChainEnvs)

Next == \E ip \in {"10.0.0.5"}, user \in Users : Fresh /\ Resolve(ip, user)

Spec == Init /\ [][Next]_vars

\* the registry alone
RegistryLines == {rAlice, rAlice2, rJunk, rOpt, rBadA, rBadB, rHash,
                  rIndentHash, rBlank, rShort}
RegistryEnvs == {NoHint, Env("c8:1e", Word("bob")), Env("unknown", EmptyStr),
                 Env("", Word("bob")), Env("", Word("old"))}

InitRegistry ==
    InitOver(Files(RegistryLines, MaxRegistry), {Missing}, RegistryEnvs)

NextRegistry ==
    \/ \E fp \in {"c4:ca", "c8:1e", "unknown"} : Fresh /\ FindByFingerprint(fp)
    \/ \E kd \in {KD1, KD1j, KD2, BadA} : Fresh /\ FindByKeyData(kd)
    \/ Fresh /\ FindFromEnvironment
    \/ \E fp \in {"c8:1e", "unknown"} : Fresh /\ GetKeyComment(fp)
    \/ \E fp \in {"c8:1e", "unknown"} : Fresh /\ GetKeyOptions(fp)
    \/ \E fp \in {"c8:1e", "unknown"} : Fresh /\ GetSshUser(fp)

SpecRegistry == InitRegistry /\ [][NextRegistry]_vars

\* the log scanner alone
ScanLogLines == {lKeyData, lMd5, lSha, lFailed, lOtherIp, lNoSshd, lHostbased}

InitLog == InitOver({Missing}, Files(ScanLogLines, MaxScanLog), {NoHint})

NextLog ==
    \E ip \in Ips, user \in Users, max_lines \in 0..MaxLinesArg :
        Fresh /\ FindRecent(ip, user, max_lines)

SpecLog == InitLog /\ [][NextLog]_vars

\* the line parser alone
ParseTokens == {Word("ssh-rsa"), KD1, <<"SSH_USER", "alice">>,
                <<"SSH_USER", "bob">>, <<"a", "b", "c">>, Word("comment-text")}

InitParse == InitOver({Missing}, {Missing}, {NoHint})

NextParse ==
    \E parts \in SeqUpTo(ParseTokens, MaxTokens) : Fresh /\ ParseLine(parts)

SpecParse == InitParse /\ [][NextParse]_vars

\* the registry file changed after construction
ReloadLines == {rAlice, rAlice2, rBob, rBadA}
ReloadLogs == {Missing, File(<<lKeyData>>), File(<<lMd5>>)}

InitReload == InitOver(Files(ReloadLines, MaxReloadKeys), ReloadLogs, {NoHint})

NextReload ==
    \/ \E line \in ReloadLines : AppendKey(line)
    \/ \E i \in 1..(MaxReloadKeys + MaxEdits) : RemoveKey(i)
    \/ \E fp \in {"c4:ca", "c8:1e", "unknown"} : FindByFingerprint(fp)
    \/ \E kd \in {KD1, KD2, BadA} : FindByKeyData(kd)
    \/ \E fp \in {"c4:ca", "c8:1e"} : GetKeyComment(fp)
    \/ \E fp \in {"c4:ca", "c8:1e"} : GetKeyOptions(fp)
    \/ \E fp \in {"c4:ca", "c8:1e"} : GetSshUser(fp)
    \/ \E user \in Users : Resolve("10.0.0.5", user)

SpecReload == InitReload /\ [][NextReload]_vars

\* auth logs about as long as the rescan window: up to MaxOlder lines, then
\* filler lines that match nothing, then up to MaxRecent lines
RescanRegLines == {rAlice, rBob, rIndentHash}
RescanLogLines == {lKeyData, lOtherIp, lSha, lMd5}

Filler(n) == [i \in 1..n |-> lFailed]

LongLogs ==
    {File(older \o Filler(n) \o recent) :
        older \in SeqUpTo(RescanLogLines, MaxOlder),
        n \in (RESCAN_LINES - MaxRecent)..RESCAN_LINES,
        recent \in SeqUpTo(RescanLogLines, MaxRecent)}

InitRescan ==
    InitOver(Files(RescanRegLines, MaxRescanKeys), LongLogs, {NoHint})

NextRescan ==
    \E ip \in {"10.0.0.5"}, user \in Users : Fresh /\ Resolve(ip, user)

SpecRescan == InitRescan /\ [][NextRescan]_vars

-----------------------------------------------------------------------------
(* Properties *)

Range(f) == {f[i] : i \in DOMAIN f}

MaxOf(S) == CHOOSE x \in S : \A y \in S : y <= x
MinOf(S) == CHOOSE x \in S : \A y \in S : x <= y

\* the text after the first '=' of a token that has one
AfterFirstEq(tok) == SubSeq(tok, 2, Len(tok))

\* positions (1-based) of the tokens between the key data and the last
\* token that contain '='
OptionPositions(parts) ==
    {i \in 3..(Len(parts) - 1) : Len(parts[i]) > 1}

ExactMatch(line, ip, user) ==
    /\ line.verb = "Accepted"
    /\ line.method \in {"publickey", "password", "keyboard-interactive"}
    /\ line.user = user
    /\ (line.ip = ip \/ (ip = "10.0.0.5" /\ line.ip = "10.0.0.50"))

\* the line holds the ip, "Accepted" and "sshd"
LooseMatch(line, ip) ==
    /\ line.verb = "Accepted"
    /\ line.sshd
    /\ (line.ip = ip \/ (ip = "10.0.0.5" /\ line.ip = "10.0.0.50"))

\* indices of the last min(n, k) lines of a file of n lines
LastLines(n, k) == (n - Min(n, k) + 1)..n

\* C5: findRecentConnection(ip, username, maxLines) inspects only the last
\* min(n, maxLines) lines of a log of n lines, for every maxLines >= 0: the
\* evidence it returns is never derived from a line outside that window,
\* and if no line inside the window matches it returns no evidence.
C5_WindowBound ==
    call.op = "find_recent_ssh_connection" =>
        LET lines == auth_log.lines
            window == LastLines(Len(lines), call.max_lines)
        IN  /\ trace.line # 0 => trace.line \in window
            /\ (\A i \in window :
                    /\ ~ExactMatch(lines[i], call.ip_address, call.username)
                    /\ ~LooseMatch(lines[i], call.ip_address))
               => result = None

\* the lines find_recent_ssh_connection read: recent_lines of line 232
LinesRead(n, max_lines) == WindowStart(n, max_lines)..n

\* C6: within the lines it read, findRecentConnection returns the evidence
\* parsed from the most recent exact match whenever there is one, even if
\* a more recent line matches only loosely; without an exact match, the
\* evidence of the most recent loosely matching line; without either, no
\* evidence.
C6_ExactBeforeLoose ==
    (call.op = "find_recent_ssh_connection"
        /\ auth_log.exists /\ auth_log.readable) =>
        LET lines == auth_log.lines
            read == LinesRead(Len(lines), call.max_lines)
            exact == {i \in read :
                         ExactMatch(lines[i], call.ip_address, call.username)}
            loose == {i \in read : LooseMatch(lines[i], call.ip_address)}
        IN  /\ exact # {} =>
                /\ trace.line = MaxOf(exact)
                /\ result = _parse_ssh_connection_line(lines[MaxOf(exact)])
            /\ (exact = {} /\ loose # {}) =>
                /\ trace.line = MaxOf(loose)
                /\ result = _parse_ssh_connection_line(lines[MaxOf(loose)])
            /\ (exact = {} /\ loose = {}) =>
                /\ trace.line = 0
                /\ result = None

\* an older exact match was preferred to a more recent loose one
C6_Witness ==
    /\ call.op = "find_recent_ssh_connection"
    /\ call.max_lines >= 2
    /\ trace.line # 0
    /\ ExactMatch(auth_log.lines[trace.line], call.ip_address, call.username)
    /\ \E i \in (trace.line + 1)..Len(auth_log.lines) :
           /\ i \in LinesRead(Len(auth_log.lines), call.max_lines)
           /\ LooseMatch(auth_log.lines[i], call.ip_address)
    /\ result = _parse_ssh_connection_line(auth_log.lines[trace.line])

\* the lines load() takes for entries: not blank, not a comment once
\* stripped, at least a type and a data token
EntryLines(lines) ==
    {i \in 1..Len(lines) :
        /\ lines[i].toks # <<>>
        /\ ~StartsWithHash(lines[i].toks[1])
        /\ Len(lines[i].toks) >= 2}

\* the entry lines carrying the key data d
LinesWithData(lines, d) == {i \in EntryLines(lines) : lines[i].toks[2] = d}

\* C4: when two or more entry lines carry the same key data,
\* findByFingerprint on its fingerprint returns the entry built from the
\* last of them, and findByKeyData on that key data returns the entry
\* built from the first of them.
C4_RegistryPrecedence ==
    LET lines == authorized_keys.lines
    IN  /\ call.op = "find_key_by_fingerprint" =>
            \A d \in KeyDatas :
                (/\ Cardinality(LinesWithData(lines, d)) >= 2
                 /\ _generate_fingerprint(Word("ssh-rsa"), d) = call.fingerprint)
                => /\ IsEntry(result)
                   /\ result.line_number = MaxOf(LinesWithData(lines, d))
                   /\ result.full_line =
                          lines[MaxOf(LinesWithData(lines, d))].toks
        /\ call.op = "_find_key_by_data" =>
            (Cardinality(LinesWithData(lines, call.key_data)) >= 2
             => /\ IsEntry(result)
                /\ result.full_line =
                       lines[MinOf(LinesWithData(lines, call.key_data))].toks)

\* the two halves of C4, apart
C4_LastLineOfThatData ==
    LET lines == authorized_keys.lines
    IN  call.op = "find_key_by_fingerprint" =>
            \A d \in KeyDatas :
                (/\ Cardinality(LinesWithData(lines, d)) >= 2
                 /\ _generate_fingerprint(Word("ssh-rsa"), d) = call.fingerprint)
                => /\ IsEntry(result)
                   /\ result.line_number = MaxOf(LinesWithData(lines, d))

C4_FirstLineOfThatData ==
    LET lines == authorized_keys.lines
    IN  call.op = "_find_key_by_data" =>
            (Cardinality(LinesWithData(lines, call.key_data)) >= 2
             => /\ IsEntry(result)
                /\ result.full_line =
                       lines[MinOf(LinesWithData(lines, call.key_data))].toks)

\* what does hold of the index: the entry of a fingerprint is built from
\* the last entry line with that fingerprint, whatever its key data
C4_LastLineOfThatFingerprint ==
    LET lines == authorized_keys.lines
        same == {i \in EntryLines(lines) :
                    _generate_fingerprint(lines[i].toks[1], lines[i].toks[2])
                        = call.fingerprint}
    IN  call.op = "find_key_by_fingerprint" =>
            IF same = {}
            THEN result = None
            ELSE /\ IsEntry(result)
                 /\ result.line_number = MaxOf(same)
                 /\ result.full_line = lines[MaxOf(same)].toks

\* C7: the environment-hint step: a reported fingerprint is looked up in
\* the index and decides the result, the comment hint not being consulted;
\* otherwise a reported comment gives an index entry with that comment, or
\* absent when there is none; otherwise absent.  No entry is returned that
\* matches neither reported hint.
C7_EnvironmentHint ==
    call.op = "_find_key_from_ssh_environment" =>
        LET fp == environ.SSH_KEY_FINGERPRINT
            comment == environ.SSH_KEY_COMMENT
            entries == Range(key_cache)
        IN  /\ fp # "" =>
                IF \E e \in entries : e.fingerprint = fp
                THEN result \in entries /\ result.fingerprint = fp
                ELSE result = None
            /\ (fp = "" /\ comment # EmptyStr) =>
                IF \E e \in entries : e.comment = comment
                THEN result \in entries /\ result.comment = comment
                ELSE result = None
            /\ (fp = "" /\ comment = EmptyStr) => result = None
            /\ IsEntry(result) =>
                \/ (fp # "" /\ result.fingerprint = fp)
                \/ (comment # EmptyStr /\ result.comment = comment)

\* a fingerprint hint that is in no entry gave absent although an entry
\* has the comment hinted at
C7_Witness ==
    /\ call.op = "_find_key_from_ssh_environment"
    /\ environ.SSH_KEY_FINGERPRINT # ""
    /\ environ.SSH_KEY_COMMENT # EmptyStr
    /\ \E e \in Range(key_cache) : e.comment = environ.SSH_KEY_COMMENT
    /\ result = None

ResultFields == {"type", "data", "fingerprint", "comment", "options",
                 "line_number"}

\* C10: every entry returned by findByFingerprint, findByKeyData or
\* resolve carries type, data, fingerprint, comment, options and the
\* lineNumber of the registry line it was parsed from.
C10_EntryShape ==
    (call.op \in {"find_key_by_fingerprint", "_find_key_by_data",
                  "find_key_by_ip_and_user"} /\ IsEntry(result)) =>
        /\ ResultFields \subseteq DOMAIN result
        /\ result.line_number \in 1..Len(authorized_keys.lines)
        /\ authorized_keys.lines[result.line_number].toks = result.full_line

\* an entry of the index built from line i of the file as loaded
FromLoadedLine(entry, fp) ==
    /\ IsEntry(entry)
    /\ entry.fingerprint = fp
    /\ "line_number" \in DOMAIN entry
    /\ entry.line_number \in EntryLines(loaded.lines)
    /\ loaded.lines[entry.line_number].toks = entry.full_line

\* the lines of a file findByKeyData can answer from
DataLines(file, d) ==
    IF file.exists /\ file.readable
    THEN {i \in 1..Len(file.lines) :
             /\ file.lines[i].toks # <<>>
             /\ ~(StartsWithHash(file.lines[i].toks[1]) /\ ~file.lines[i].indent)
             /\ Len(file.lines[i].toks) >= 2
             /\ file.lines[i].toks[2] = d}
    ELSE {}

\* what a call answered, given the file as it was during the call
AnswersAsOf(c, r, t, file) ==
    /\ c.op = "find_key_by_fingerprint" =>
           IF \E i \in EntryLines(loaded.lines) :
                  _generate_fingerprint(loaded.lines[i].toks[1],
                                        loaded.lines[i].toks[2]) = c.fingerprint
           THEN FromLoadedLine(r, c.fingerprint)
           ELSE r = None
    /\ c.op = "_find_key_by_data" =>
           IF DataLines(file, c.key_data) = {}
           THEN r = None
           ELSE /\ IsEntry(r)
                /\ r.full_line =
                       file.lines[MinOf(DataLines(file, c.key_data))].toks
    /\ c.op = "find_key_by_ip_and_user" =>
           /\ IsEntry(t.o1) => FromLoadedLine(t.o1, t.conn.fingerprint)
           /\ IsEntry(t.o2) =>
                  /\ DataLines(file, t.conn.key_data) # {}
                  /\ t.o2.full_line =
                         file.lines[MinOf(DataLines(file, t.conn.key_data))].toks

\* C8: the index is built once at construction and no later operation
\* changes it; after the registry file is modified, findByFingerprint and
\* resolve's fingerprint step answer from the content as loaded, whereas
\* findByKeyData answers from the file as it is during the call.
C8_IndexFrozenFileReread ==
    [][/\ key_cache' = key_cache
       /\ authorized_keys' = authorized_keys =>
              AnswersAsOf(call', result', trace', authorized_keys')]_vars

\* after a line was added to the file, findByKeyData found it while the
\* index still has no entry for its fingerprint
C8_Witness ==
    /\ edits > 0
    /\ call.op = "_find_key_by_data"
    /\ IsEntry(result)
    /\ \A i \in 1..Len(loaded.lines) : loaded.lines[i].toks # result.full_line
    /\ find_key_by_fingerprint(key_cache, result.fingerprint) = None
    /\ key_cache = _load_authorized_keys(loaded)

\* the outcomes of the four steps, in order
Outcomes(t) == <<t.o1, t.o2, t.o3, t.o4>>

C2_HintIsLastResort ==
    (/\ call.op = "find_key_by_ip_and_user"
     /\ ~IsEntry(trace.o1) /\ ~IsEntry(trace.o2) /\ ~IsEntry(trace.o3)) =>
        /\ result = _find_key_from_ssh_environment(key_cache, environ)
        /\ (\E e \in Range(key_cache) :
                e.fingerprint = environ.SSH_KEY_FINGERPRINT)
           => /\ IsEntry(result)
              /\ result.fingerprint = environ.SSH_KEY_FINGERPRINT

\* what does hold: the hint step is reached unless reading the log raised
C2_HintUnlessLogRaises ==
    (/\ call.op = "find_key_by_ip_and_user"
     /\ ~IsEntry(trace.o1) /\ ~IsEntry(trace.o2) /\ ~IsEntry(trace.o3)
     /\ ~(auth_log.exists /\ ~auth_log.readable)) =>
        /\ trace.o4 # NotReached
        /\ result = trace.o4

\* C3: resolve is total: for every registry file, log file and
\* environment it ends with a registry entry or with absent and never
\* propagates a fault; with an empty or missing registry, an empty or
\* missing log and no hint the result is absent.
C3_ResolveTotal ==
    call.op = "find_key_by_ip_and_user" =>
        /\ result # Raised
        /\ \/ result = None
           \/ /\ IsEntry(result)
              /\ \E i \in 1..Len(authorized_keys.lines) :
                     authorized_keys.lines[i].toks = result.full_line
        /\ (/\ authorized_keys \in {Missing, File(<<>>)}
            /\ auth_log \in {Missing, File(<<>>)}
            /\ environ = NoHint)
           => result = None

\* reading the log raised inside the chain and the caller got absent
C3_Witness ==
    /\ call.op = "find_key_by_ip_and_user"
    /\ auth_log.exists /\ ~auth_log.readable
    /\ trace.o3 = Raised
    /\ result = None

-----------------------------------------------------------------------------
(* Step 3: the rescan of the last lines of the auth log *)

\* step 3 ran: no earlier step produced an entry and the log was read
RescanRan ==
    /\ call.op = "find_key_by_ip_and_user"
    /\ auth_log.exists /\ auth_log.readable
    /\ trace.o3 # NotReached

\* the lines of the auth log inside the rescan window that hold the ip,
\* "Accepted" and "sshd" and carry a key data
RescanLines ==
    {n \in LastLines(Len(auth_log.lines), RESCAN_LINES) :
        /\ LooseMatch(auth_log.lines[n], call.ip_address)
        /\ auth_log.lines[n].key_data # EmptyStr}

C11_RescanOverDataLines ==
    RescanRan =>
        LET hits == {n \in RescanLines :
                        DataLines(authorized_keys,
                                  auth_log.lines[n].key_data) # {}}
        IN  IF hits = {}
            THEN trace.o3 = None
            ELSE /\ IsEntry(trace.o3)
                 /\ trace.o3.data = auth_log.lines[MaxOf(hits)].key_data
                 /\ trace.o3.full_line =
                        authorized_keys.lines[
                            MinOf(DataLines(authorized_keys,
                                            trace.o3.data))].toks

\* a registered key logged before the window and nothing usable inside it:
\* step 3 produces nothing
C11_OutsideWindowSeen ==
    /\ RescanRan
    /\ Len(auth_log.lines) > RESCAN_LINES
    /\ \E n \in 1..(Len(auth_log.lines) - RESCAN_LINES) :
           /\ LooseMatch(auth_log.lines[n], call.ip_address)
           /\ auth_log.lines[n].key_data # EmptyStr
           /\ LinesWithData(authorized_keys.lines,
                            auth_log.lines[n].key_data) # {}
    /\ trace.o3 = None

\* an unregistered key on the most recent matching line, a registered one
\* on an older line of the window: step 3 answers from the older line
C11_SkippedThenHitSeen ==
    /\ RescanRan
    /\ Len(auth_log.lines) > RESCAN_LINES
    /\ IsEntry(trace.o3)
    /\ trace.o3.full_line[1] = Word("ssh-ed25519")
    /\ \E n \in RescanLines :
           /\ auth_log.lines[n].key_data # trace.o3.data
           /\ \E m \in RescanLines :
                  m < n /\ auth_log.lines[m].key_data = trace.o3.data

-----------------------------------------------------------------------------
(* Which registry lines are entries *)

\* the lines load() ignores: blank, or a comment once stripped
IgnoredByLoad(lines) ==
    {i \in 1..Len(lines) :
        \/ lines[i].toks = <<>>
        \/ StartsWithHash(lines[i].toks[1])}

\* C12: load and findByKeyData agree on which registry lines are entries: a
\* line that load ignores as blank or as a comment, its first non-whitespace
\* character being '#' whether or not whitespace precedes it, is never the
\* source of an entry that findByKeyData returns, nor of one that resolve
\* returns.
C12_IgnoredLinesNeverAnswer ==
    (/\ call.op \in {"_find_key_by_data", "find_key_by_ip_and_user"}
     /\ IsEntry(result)) =>
        \A i \in IgnoredByLoad(authorized_keys.lines) :
            authorized_keys.lines[i].toks # result.full_line

\* the half that holds: load never indexes a line it ignores, and a '#' in
\* the first column keeps a line out of findByKeyData as well
C12_LoadIgnoresComments ==
    /\ \A fp \in DOMAIN key_cache :
           \A i \in IgnoredByLoad(loaded.lines) :
               loaded.lines[i].toks # key_cache[fp].full_line
    /\ (/\ call.op \in {"_find_key_by_data", "find_key_by_ip_and_user"}
        /\ IsEntry(result)) =>
           \/ \A i \in IgnoredByLoad(authorized_keys.lines) :
                  authorized_keys.lines[i].toks # result.full_line
           \/ \E i \in IgnoredByLoad(authorized_keys.lines) :
                  /\ authorized_keys.lines[i].toks = result.full_line
                  /\ authorized_keys.lines[i].indent

=============================================================================
